---- MODULE Spec2Model ----
(***************************************************************************)
(* Model of Expense-Tracker-Project/expensetracker.py: the module-level    *)
(* ledger `expenses`, the backing file expenses.txt, and the interactive   *)
(* loops of main, add_expense and remove_expense.                          *)
(*                                                                         *)
(* Texts (input lines, descriptions, dates) are sequences of one-character *)
(* strings, so that str.strip, str.capitalize, str.lower, int(), float(),  *)
(* strptime and strftime can be computed as the library computes them.     *)
(* The backing file is a sequence of JSON tokens; json.dump and json.load  *)
(* are a printer and a recursive-descent parser over those tokens.         *)
(* I/O faults of the operating system (disk full, permission denied) are   *)
(* outside the model: open() fails only with FileNotFoundError.            *)
(***************************************************************************)
EXTENDS Integers, Sequences, FiniteSets, TLC

VARIABLES
    file,       \* expenses.txt: [exists, toks]
    expenses,   \* the global `expenses` (a JSON value, normally a list)
    pc,         \* the prompt the process waits at; "init", "off", "crashed": not running
    desc,       \* add_expense local `desc`
    category,   \* add_expense local `category`
    msg,        \* the last report printed
    summary     \* monthly_totals as last printed by monthly_summary

vars == <<file, expenses, pc, desc, category, msg, summary>>

\* Cap on the ledger length reached through add_expense.
MaxLedger == 2

\* Cap on the length of the ledgers monthly_summary is applied to in SpecSummary.
MaxSummaryLen == 3

(***************************************************************************)
(* Text: str.strip, str.lower, str.capitalize                              *)
(***************************************************************************)
CasePairs ==
    { <<"t", "T">>, <<"v", "V">>, <<"f", "F">>, <<"u", "U">>, <<"n", "N">>,
      <<"y", "Y">>, <<"e", "E">>, <<"s", "S">>, <<"o", "O">>, <<"a", "A">>,
      <<"x", "X">> }

Upper(c) ==
    IF \E p \in CasePairs : p[1] = c
    THEN (CHOOSE p \in CasePairs : p[1] = c)[2]
    ELSE c

Lower(c) ==
    IF \E p \in CasePairs : p[2] = c
    THEN (CHOOSE p \in CasePairs : p[2] = c)[1]
    ELSE c

IsSpace(c) == c = " "

\* str.strip(): drop leading and trailing whitespace.
Strip(s) ==
    LET keep == { i \in 1..Len(s) : ~IsSpace(s[i]) }
    IN  IF keep = {} THEN <<>>
        ELSE LET lo == CHOOSE i \in keep : \A j \in keep : i <= j
                 hi == CHOOSE i \in keep : \A j \in keep : j <= i
             IN  SubSeq(s, lo, hi)

\* str.lower()
LowerText(s) == [i \in 1..Len(s) |-> Lower(s[i])]

\* str.capitalize(): first character upper-cased, the rest lower-cased.
Capitalize(s) ==
    [i \in 1..Len(s) |-> IF i = 1 THEN Upper(s[i]) ELSE Lower(s[i])]

(***************************************************************************)
(* int() and float() of an input line                                      *)
(***************************************************************************)
Digits == <<"0", "1", "2", "3", "4", "5", "6", "7", "8", "9">>

IsDigit(c) == \E i \in 1..10 : Digits[i] = c

DigitVal(c) == (CHOOSE i \in 1..10 : Digits[i] = c) - 1

RECURSIVE DigitsVal(_)
DigitsVal(s) ==
    IF s = <<>> THEN 0
    ELSE 10 * DigitsVal(SubSeq(s, 1, Len(s) - 1)) + DigitVal(s[Len(s)])

AllDigits(s) == s # <<>> /\ \A i \in 1..Len(s) : IsDigit(s[i])

\* int(text): optional sign, then decimal digits; anything else is a ValueError.
ParseInt(text) ==
    LET s == Strip(text)
        signed == s # <<>> /\ s[1] \in {"-", "+"}
        body == IF signed THEN Tail(s) ELSE s
    IN  IF AllDigits(body)
        THEN [ok |-> TRUE,
              v |-> IF signed /\ s[1] = "-" THEN 0 - DigitsVal(body) ELSE DigitsVal(body)]
        ELSE [ok |-> FALSE, v |-> 0]

\* A float: a number, or the IEEE not-a-number.
Num(v) == [nan |-> FALSE, v |-> v]
NaN == [nan |-> TRUE, v |-> 0]

\* float(text): the integer literals of int(), and "nan" in any letter case
\* (decimal fractions, exponents and "inf" are not among the modelled inputs).
ParseFloat(text) ==
    LET s == Strip(text)
        unsigned == IF s # <<>> /\ s[1] \in {"-", "+"} THEN Tail(s) ELSE s
    IN  IF LowerText(unsigned) = <<"n", "a", "n">>
        THEN [ok |-> TRUE, val |-> NaN]
        ELSE [ok |-> ParseInt(text).ok, val |-> Num(ParseInt(text).v)]

\* a < b on floats: every comparison with NaN is false.
FloatLess(a, b) == ~a.nan /\ ~b.nan /\ a.v < b.v

\* a + b on floats.
FloatAdd(a, b) == IF a.nan \/ b.nan THEN NaN ELSE Num(a.v + b.v)

(***************************************************************************)
(* JSON values held in memory                                              *)
(***************************************************************************)
JNum(f) == [t |-> IF f.nan THEN "nan" ELSE "num", s |-> <<>>, v |-> f.v, items |-> <<>>]
JStr(s) == [t |-> "str", s |-> s, v |-> 0, items |-> <<>>]
JList(items) == [t |-> "list", s |-> <<>>, v |-> 0, items |-> items]
\* A dict: its members in insertion order, each [k |-> key text, val |-> value].
JObj(members) == [t |-> "obj", s |-> <<>>, v |-> 0, items |-> members]

IsNumber(j) == j.t \in {"num", "nan"}
FloatOf(j) == [nan |-> j.t = "nan", v |-> j.v]

HasKey(j, k) == \E i \in 1..Len(j.items) : j.items[i].k = k
Get(j, k) == j.items[CHOOSE i \in 1..Len(j.items) : j.items[i].k = k].val

\* d[k] = val on an insertion-ordered dict.
DictSet(members, k, val) ==
    IF \E i \in 1..Len(members) : members[i].k = k
    THEN [i \in 1..Len(members) |->
            IF members[i].k = k THEN [k |-> k, val |-> val] ELSE members[i]]
    ELSE Append(members, [k |-> k, val |-> val])

(***************************************************************************)
(* json.dump and json.load over the tokens of the backing file             *)
(***************************************************************************)
Tok(t) == [t |-> t, s |-> <<>>, v |-> 0]
StrTok(s) == [t |-> "str", s |-> s, v |-> 0]

RECURSIVE Encode(_)
RECURSIVE EncodeItems(_, _)
RECURSIVE EncodeMembers(_, _)

\* The elements of a list from the i-th on, comma-separated.
EncodeItems(items, i) ==
    IF i > Len(items) THEN <<>>
    ELSE Encode(items[i])
         \o (IF i < Len(items) THEN <<Tok(",")>> ELSE <<>>)
         \o EncodeItems(items, i + 1)

\* The members of a dict from the i-th on: key, colon, value, comma-separated.
EncodeMembers(members, i) ==
    IF i > Len(members) THEN <<>>
    ELSE <<StrTok(members[i].k), Tok(":")>> \o Encode(members[i].val)
         \o (IF i < Len(members) THEN <<Tok(",")>> ELSE <<>>)
         \o EncodeMembers(members, i + 1)

\* json.dump(value): numbers and strings are one token each (NaN is written
\* as the literal NaN), lists and dicts are bracketed and comma-separated.
Encode(j) ==
    CASE j.t \in {"num", "nan"} -> <<[t |-> j.t, s |-> <<>>, v |-> j.v]>>
      [] j.t = "str" -> <<StrTok(j.s)>>
      [] j.t = "list" -> <<Tok("[")>> \o EncodeItems(j.items, 1) \o <<Tok("]")>>
      [] j.t = "obj" -> <<Tok("{")>> \o EncodeMembers(j.items, 1) \o <<Tok("}")>>

ParseFail == [ok |-> FALSE, val |-> JList(<<>>), next |-> 0]

RECURSIVE ParseValue(_, _)
RECURSIVE ParseElems(_, _, _)
RECURSIVE ParseMembers(_, _, _)

\* The elements of a list after "[" or ",": value, then "," or "]".
ParseElems(toks, i, acc) ==
    LET r == ParseValue(toks, i)
    IN  IF ~r.ok \/ r.next > Len(toks) THEN ParseFail
        ELSE CASE toks[r.next].t = "," -> ParseElems(toks, r.next + 1, Append(acc, r.val))
               [] toks[r.next].t = "]" ->
                    [ok |-> TRUE, val |-> JList(Append(acc, r.val)), next |-> r.next + 1]
               [] OTHER -> ParseFail

\* The members of a dict after "{" or ",": key, ":", value, then "," or "}".
\* A repeated key keeps its first position and takes the last value.
ParseMembers(toks, i, acc) ==
    IF i + 1 > Len(toks) \/ toks[i].t # "str" \/ toks[i + 1].t # ":" THEN ParseFail
    ELSE LET r == ParseValue(toks, i + 2)
         IN  IF ~r.ok \/ r.next > Len(toks) THEN ParseFail
             ELSE CASE toks[r.next].t = "," ->
                         ParseMembers(toks, r.next + 1, DictSet(acc, toks[i].s, r.val))
                    [] toks[r.next].t = "}" ->
                         [ok |-> TRUE, val |-> JObj(DictSet(acc, toks[i].s, r.val)),
                          next |-> r.next + 1]
                    [] OTHER -> ParseFail

ParseValue(toks, i) ==
    IF i > Len(toks) THEN ParseFail
    ELSE CASE toks[i].t \in {"num", "nan"} ->
                [ok |-> TRUE, val |-> JNum([nan |-> toks[i].t = "nan", v |-> toks[i].v]),
                 next |-> i + 1]
           [] toks[i].t = "str" -> [ok |-> TRUE, val |-> JStr(toks[i].s), next |-> i + 1]
           [] toks[i].t = "[" ->
                IF i < Len(toks) /\ toks[i + 1].t = "]"
                THEN [ok |-> TRUE, val |-> JList(<<>>), next |-> i + 2]
                ELSE ParseElems(toks, i + 1, <<>>)
           [] toks[i].t = "{" ->
                IF i < Len(toks) /\ toks[i + 1].t = "}"
                THEN [ok |-> TRUE, val |-> JObj(<<>>), next |-> i + 2]
                ELSE ParseMembers(toks, i + 1, <<>>)
           [] OTHER -> ParseFail

\* json.load(f): one value and nothing after it, else JSONDecodeError.
Decode(toks) ==
    LET r == ParseValue(toks, 1)
    IN  IF r.ok /\ r.next = Len(toks) + 1 THEN r ELSE ParseFail

Absent == [exists |-> FALSE, toks |-> <<>>]

\* load_expenses: the value to which `expenses` is bound.
load_expenses(f) ==
    IF ~f.exists THEN JList(<<>>)
    ELSE IF ~Decode(f.toks).ok THEN JList(<<>>)
    ELSE Decode(f.toks).val

\* open("expenses.txt", "a") followed by json.dump: the text is added to the
\* file's old contents.
save_expenses_append(f, e) == [exists |-> TRUE, toks |-> f.toks \o Encode(e)]

\* save_expenses: open(..., "w") empties the file f, json.dump writes the value.
save_expenses(f, e) == [exists |-> TRUE, toks |-> Encode(e)]

\* A file as a run of the program leaves it.
Saved(e) == save_expenses(Absent, e)

(***************************************************************************)
(* Dates: datetime.strptime(text, "%d-%m-%Y") and strftime("%m-%Y")        *)
(***************************************************************************)
IsLeap(y) == (y % 4 = 0 /\ y % 100 # 0) \/ y % 400 = 0

DaysIn(m, y) ==
    CASE m \in {4, 6, 9, 11} -> 30
      [] m = 2 -> IF IsLeap(y) THEN 29 ELSE 28
      [] OTHER -> 31

\* strptime: one or two digits of day, "-", one or two digits of month, "-",
\* four digits of year, and the day must exist; anything else is a ValueError.
StrpTime(s) ==
    LET dashes == { i \in 1..Len(s) : s[i] = "-" }
        bad == [ok |-> FALSE, d |-> 0, m |-> 0, y |-> 0]
    IN  IF Cardinality(dashes) # 2 THEN bad
        ELSE LET i == CHOOSE a \in dashes : \A b \in dashes : a <= b
                 j == CHOOSE a \in dashes : \A b \in dashes : b <= a
                 dd == SubSeq(s, 1, i - 1)
                 mm == SubSeq(s, i + 1, j - 1)
                 yy == SubSeq(s, j + 1, Len(s))
             IN  IF /\ AllDigits(dd) /\ Len(dd) <= 2
                    /\ AllDigits(mm) /\ Len(mm) <= 2
                    /\ AllDigits(yy) /\ Len(yy) = 4
                    /\ DigitsVal(yy) >= 1
                    /\ DigitsVal(mm) \in 1..12
                    /\ DigitsVal(dd) \in 1..DaysIn(DigitsVal(mm), DigitsVal(yy))
                 THEN [ok |-> TRUE, d |-> DigitsVal(dd), m |-> DigitsVal(mm),
                       y |-> DigitsVal(yy)]
                 ELSE bad

\* strftime("%m-%Y"): two digits of month, "-", four digits of year.
StrfMonthYear(m, y) ==
    << Digits[(m \div 10) + 1], Digits[(m % 10) + 1], "-",
       Digits[((y \div 1000) % 10) + 1], Digits[((y \div 100) % 10) + 1],
       Digits[((y \div 10) % 10) + 1], Digits[(y % 10) + 1] >>

(***************************************************************************)
(* The four keys of an expense record                                      *)
(***************************************************************************)
KeyDate == <<"D", "a", "t", "e">>
KeyDescription == <<"D", "e", "s", "c", "r", "i", "p", "t", "i", "o", "n">>
KeyCategory == <<"C", "a", "t", "e", "g", "o", "r", "y">>
KeyAmount == <<"A", "m", "o", "u", "n", "t">>

\* The dict built by add_expense.
Expense(date, d, c, amount) ==
    JObj(<< [k |-> KeyDate, val |-> JStr(date)],
            [k |-> KeyDescription, val |-> JStr(d)],
            [k |-> KeyCategory, val |-> JStr(c)],
            [k |-> KeyAmount, val |-> JNum(amount)] >>)

(***************************************************************************)
(* Python operations on the value bound to `expenses`                      *)
(***************************************************************************)
\* bool(e)
Truthy(e) ==
    CASE e.t \in {"list", "obj"} -> e.items # <<>>
      [] e.t = "str" -> e.s # <<>>
      [] e.t = "num" -> e.v # 0
      [] e.t = "nan" -> TRUE

\* len(e): a TypeError on a number.
PyLen(e) ==
    CASE e.t \in {"list", "obj"} -> [ok |-> TRUE, n |-> Len(e.items)]
      [] e.t = "str" -> [ok |-> TRUE, n |-> Len(e.s)]
      [] OTHER -> [ok |-> FALSE, n |-> 0]

\* list.pop(i) with a 0-based index; a negative index counts from the end.
Pop(items, i) ==
    LET at == IF i < 0 THEN i + Len(items) ELSE i
    IN  SubSeq(items, 1, at) \o SubSeq(items, at + 2, Len(items))

PopInRange(items, i) == i < Len(items) /\ i >= 0 - Len(items)

\* list.insert(0, x): the record put in front of the others.
ListInsertFront(items, x) == <<x>> \o items

\* list.append(x)
ListAppend(items, x) == items \o <<x>>

(***************************************************************************)
(* view_expenses: "ok", or the exception it raises                         *)
(***************************************************************************)
\* The f-string of one line: the four lookups in order, Amount with :.2f.
ViewItem(x) ==
    IF x.t # "obj" THEN "crash"
    ELSE IF ~HasKey(x, KeyDate) \/ ~HasKey(x, KeyDescription)
            \/ ~HasKey(x, KeyCategory) \/ ~HasKey(x, KeyAmount) THEN "crash"
    ELSE IF IsNumber(Get(x, KeyAmount)) THEN "ok"
    ELSE IF Get(x, KeyAmount).t = "str" THEN "ValueError"
    ELSE "crash"

view_expenses(e) ==
    IF ~Truthy(e) THEN "ok"
    ELSE IF e.t # "list" THEN "crash"
    ELSE LET badAt == { i \in 1..Len(e.items) : ViewItem(e.items[i]) # "ok" }
         IN  IF badAt = {} THEN "ok"
             ELSE ViewItem(e.items[CHOOSE i \in badAt : \A j \in badAt : i <= j])

(***************************************************************************)
(* monthly_summary                                                         *)
(***************************************************************************)
\* monthly_totals.get(month, 0)
TotalsGet(acc, month) ==
    IF \E i \in 1..Len(acc) : acc[i].k = month
    THEN acc[CHOOSE i \in 1..Len(acc) : acc[i].k = month].val
    ELSE Num(0)

\* monthly_totals[month] = expense['Amount']: the month's total overwritten.
AccumulateOverwrite(acc, month, amount) == DictSet(acc, month, amount)

\* monthly_totals[month] = monthly_totals.get(month, 0) + expense['Amount']
Accumulate(acc, month, amount) ==
    DictSet(acc, month, FloatAdd(TotalsGet(acc, month), amount))

RECURSIVE Totals(_, _, _)
\* The grouping loop from the i-th record on.
Totals(items, i, acc) ==
    IF i > Len(items) THEN [res |-> "ok", totals |-> acc]
    ELSE LET x == items[i]
         IN  IF x.t # "obj" \/ ~HasKey(x, KeyDate) THEN [res |-> "crash", totals |-> <<>>]
             ELSE IF Get(x, KeyDate).t # "str" THEN [res |-> "crash", totals |-> <<>>]
             ELSE IF ~StrpTime(Get(x, KeyDate).s).ok
                  THEN [res |-> "ValueError", totals |-> <<>>]
             ELSE IF ~HasKey(x, KeyAmount) \/ ~IsNumber(Get(x, KeyAmount))
                  THEN [res |-> "crash", totals |-> <<>>]
             ELSE LET dt == StrpTime(Get(x, KeyDate).s)
                  IN  Totals(items, i + 1,
                             Accumulate(acc, StrfMonthYear(dt.m, dt.y),
                                        FloatOf(Get(x, KeyAmount))))

\* monthly_summary: "nodata" for a falsy ledger, else the totals or the exception.
monthly_summary(e) ==
    IF ~Truthy(e) THEN [res |-> "nodata", totals |-> <<>>]
    ELSE IF e.t # "list" THEN [res |-> "crash", totals |-> <<>>]
    ELSE Totals(e.items, 1, <<>>)

(***************************************************************************)
(* Inputs: the lines the user may type, the clock, the file found on disk  *)
(***************************************************************************)
\* str(n) for -9 <= n <= 9
IntText(n) == IF n < 0 THEN <<"-", Digits[(0 - n) + 1]>> ELSE <<Digits[n + 1]>>

\* Lines typed at the description and category prompts.
TextInputs == { <<>>, <<" ", "t", "v">> }

\* Lines typed at the amount prompt: 7, -3, nan, and a non-number.
AmountInputs == { <<"7">>, <<"-", "3">>, <<"n", "a", "n">>, <<"x">> }

\* Lines typed at the menu prompt.
MenuInputs == { IntText(n) : n \in 0..6 } \cup { <<"x">> }

\* Lines typed at the removal prompt.
PositionInputs == { IntText(n) : n \in -1..(MaxLedger + 1) } \cup { <<"x">> }

\* Lines typed at a yes/no prompt.
AnswerInputs == { <<" ", "Y", "E", "S">>, <<"n", "o">>, <<"x">> }

\* Values of datetime.now().strftime("%d-%m-%Y"): the session's day, 02-11-2026.
NowDates == { <<"0", "2", "-", "1", "1", "-", "2", "0", "2", "6">> }

Date20240101 == <<"0", "1", "-", "0", "1", "-", "2", "0", "2", "4">>
Date20240115 == <<"1", "5", "-", "0", "1", "-", "2", "0", "2", "4">>
Date20240202 == <<"0", "2", "-", "0", "2", "-", "2", "0", "2", "4">>
TextTv == <<"T", "v">>
TextFun == <<"F", "u", "n">>

\* What expenses.txt may hold when the program starts: nothing, a truncated
\* text, [], a one-record ledger, {}, 0, a record with a negative Amount, and
\* a record whose Amount is a string.
FileContents ==
    { Absent,
      [exists |-> TRUE, toks |-> <<Tok("["), Tok("{")>>],
      Saved(JList(<<>>)),
      Saved(JList(<<Expense(Date20240101, TextTv, TextFun, Num(10))>>)),
      Saved(JObj(<<>>)),
      Saved(JNum(Num(0))),
      Saved(JList(<<Expense(Date20240115, TextTv, TextFun, Num(-5))>>)),
      Saved(JList(<<JObj(<< [k |-> KeyDate, val |-> JStr(Date20240202)],
                                    [k |-> KeyDescription, val |-> JStr(TextTv)],
                                    [k |-> KeyCategory, val |-> JStr(TextFun)],
                                    [k |-> KeyAmount, val |-> JStr(<<"x">>)] >>)>>)) }

(***************************************************************************)
(* The program                                                             *)
(***************************************************************************)
NoSummary == [out |-> "unset", totals |-> <<>>]

Init ==
    /\ file \in FileContents
    /\ expenses = JList(<<>>)
    /\ pc = "init"
    /\ desc = <<>>
    /\ category = <<>>
    /\ msg = ""
    /\ summary = NoSummary

\* An exception other than ValueError reaches the top level: the process ends.
Crash ==
    /\ pc' = "crashed"
    /\ msg' = "Traceback"
    /\ desc' = <<>>
    /\ category' = <<>>
    /\ summary' = NoSummary

\* Module level: expenses = [], load_expenses(), then main() prints its welcome.
Start ==
    /\ pc \in {"init", "off", "crashed"}
    /\ expenses' = load_expenses(file)
    /\ pc' = "menu"
    /\ msg' = "Welcome to Expense Tracker!"
    /\ desc' = <<>>
    /\ category' = <<>>
    /\ summary' = NoSummary
    /\ UNCHANGED file

\* The top of remove_expense's loop: view_expenses() outside the try, so its
\* ValueError is caught by main; `report` is what was printed just before.
RemoveLoopTop(e, report) ==
    CASE view_expenses(e) = "ok" -> [pc |-> "remove", msg |-> report]
      [] view_expenses(e) = "ValueError" ->
            [pc |-> "menu", msg |-> "Please enter a valid integer"]
      [] OTHER -> [pc |-> "crashed", msg |-> "Traceback"]

\* main: int(input(...)) raises ValueError.
MenuNotInt(text) ==
    /\ pc = "menu"
    /\ ~ParseInt(text).ok
    /\ pc' = "menu"
    /\ msg' = "Please enter a valid integer"
    /\ summary' = NoSummary
    /\ UNCHANGED <<file, expenses, desc, category>>

\* main: an integer outside 1..5.
MenuOutOfRange(text) ==
    /\ pc = "menu"
    /\ ParseInt(text).ok
    /\ ParseInt(text).v \notin 1..5
    /\ pc' = "menu"
    /\ msg' = "Please choose between 1 and 5"
    /\ summary' = NoSummary
    /\ UNCHANGED <<file, expenses, desc, category>>

\* main: option 1 enters add_expense.
MenuAdd(text) ==
    /\ pc = "menu"
    /\ ParseInt(text).ok
    /\ ParseInt(text).v = 1
    /\ pc' = "add_desc"
    /\ msg' = ""
    /\ summary' = NoSummary
    /\ UNCHANGED <<file, expenses, desc, category>>

\* main: option 2 enters remove_expense.
MenuRemove(text) ==
    /\ pc = "menu"
    /\ ParseInt(text).ok
    /\ ParseInt(text).v = 2
    /\ pc' = RemoveLoopTop(expenses, "").pc
    /\ msg' = RemoveLoopTop(expenses, "").msg
    /\ summary' = NoSummary
    /\ UNCHANGED <<file, expenses, desc, category>>

\* main: option 3 calls view_expenses.
MenuView(text) ==
    /\ pc = "menu"
    /\ ParseInt(text).ok
    /\ ParseInt(text).v = 3
    /\ CASE view_expenses(expenses) = "ok" ->
              /\ pc' = "menu"
              /\ msg' = ""
              /\ summary' = NoSummary
              /\ UNCHANGED <<desc, category>>
         [] view_expenses(expenses) = "ValueError" ->
              /\ pc' = "menu"
              /\ msg' = "Please enter a valid integer"
              /\ summary' = NoSummary
              /\ UNCHANGED <<desc, category>>
         [] OTHER -> Crash
    /\ UNCHANGED <<file, expenses>>

\* main: option 4 calls monthly_summary.
MenuSummary(text) ==
    /\ pc = "menu"
    /\ ParseInt(text).ok
    /\ ParseInt(text).v = 4
    /\ LET r == monthly_summary(expenses)
       IN  CASE r.res = "nodata" ->
                  /\ pc' = "menu"
                  /\ msg' = "No Expenses Yet."
                  /\ summary' = [out |-> "nodata", totals |-> <<>>]
                  /\ UNCHANGED <<desc, category>>
             [] r.res = "ok" ->
                  /\ pc' = "menu"
                  /\ msg' = "Here's your monthly expense summary:"
                  /\ summary' = [out |-> "totals", totals |-> r.totals]
                  /\ UNCHANGED <<desc, category>>
             [] r.res = "ValueError" ->
                  /\ pc' = "menu"
                  /\ msg' = "Please enter a valid integer"
                  /\ summary' = NoSummary
                  /\ UNCHANGED <<desc, category>>
             [] OTHER -> Crash
    /\ UNCHANGED <<file, expenses>>

\* main: option 5 leaves the loop and the process ends.
MenuExit(text) ==
    /\ pc = "menu"
    /\ ParseInt(text).ok
    /\ ParseInt(text).v = 5
    /\ pc' = "off"
    /\ msg' = "Thanks for using Expense Tracker!"
    /\ summary' = NoSummary
    /\ UNCHANGED <<file, expenses, desc, category>>

\* add_expense: the first description prompt, stripped and capitalized.
AddDescription(text) ==
    /\ pc = "add_desc"
    /\ desc' = Capitalize(Strip(text))
    /\ pc' = IF desc' = <<>> THEN "add_desc_again" ELSE "add_cat"
    /\ msg' = IF desc' = <<>> THEN "Description cannot be empty" ELSE ""
    /\ UNCHANGED <<file, expenses, category, summary>>

\* add_expense: the re-prompt of `while not desc`, taken as typed.
AddDescriptionAgain(text) ==
    /\ pc = "add_desc_again"
    /\ desc' = text
    /\ pc' = IF desc' = <<>> THEN "add_desc_again" ELSE "add_cat"
    /\ msg' = IF desc' = <<>> THEN "Description cannot be empty" ELSE ""
    /\ UNCHANGED <<file, expenses, category, summary>>

\* add_expense: the first category prompt, stripped and capitalized.
AddCategory(text) ==
    /\ pc = "add_cat"
    /\ category' = Capitalize(Strip(text))
    /\ pc' = IF category' = <<>> THEN "add_cat_again" ELSE "add_amount"
    /\ msg' = IF category' = <<>> THEN "Category cannot be empty" ELSE ""
    /\ UNCHANGED <<file, expenses, desc, summary>>

\* add_expense: the re-prompt of `while not category`, taken as typed.
AddCategoryAgain(text) ==
    /\ pc = "add_cat_again"
    /\ category' = text
    /\ pc' = IF category' = <<>> THEN "add_cat_again" ELSE "add_amount"
    /\ msg' = IF category' = <<>> THEN "Category cannot be empty" ELSE ""
    /\ UNCHANGED <<file, expenses, desc, summary>>

\* add_expense: float(...) raises ValueError; the outer loop starts over.
AddAmountNotFloat(text) ==
    /\ pc = "add_amount"
    /\ ~ParseFloat(text).ok
    /\ pc' = "add_desc"
    /\ msg' = "Please enter a valid input"
    /\ desc' = <<>>
    /\ category' = <<>>
    /\ UNCHANGED <<file, expenses, summary>>

\* add_expense: amount < 0 asks for the amount again.
AddAmountNegative(text) ==
    /\ pc = "add_amount"
    /\ ParseFloat(text).ok
    /\ FloatLess(ParseFloat(text).val, Num(0))
    /\ pc' = "add_amount"
    /\ msg' = "Amount must be a positive number"
    /\ UNCHANGED <<file, expenses, desc, category, summary>>

\* add_expense: the record is built, appended and saved. date_today, read at
\* the top of the loop, is first used here. The ledger grows up to MaxLedger.
\* The locals are cleared: line 97 assigns desc before it is read again.
AddAmountAccept(text) ==
    /\ pc = "add_amount"
    /\ ParseFloat(text).ok
    /\ ~FloatLess(ParseFloat(text).val, Num(0))
    /\ expenses.t = "list" => Len(expenses.items) < MaxLedger
    /\ IF expenses.t = "list"
       THEN /\ \E date_today \in NowDates :
                 expenses' = JList(ListAppend(expenses.items,
                     Expense(date_today, desc, category, ParseFloat(text).val)))
            /\ file' = save_expenses(file, expenses')
            /\ pc' = "add_again"
            /\ msg' = "Your expense has been added."
            /\ desc' = <<>>
            /\ category' = <<>>
            /\ UNCHANGED summary
       ELSE /\ Crash
            /\ UNCHANGED <<file, expenses>>

\* ask_again: the answer, lower-cased and stripped.
Answer(text) == Strip(LowerText(text))
Yes == <<"y", "e", "s">>
No == <<"n", "o">>

\* ask_again, in either loop: an answer that is neither yes nor no.
AskAgainInvalid(text) ==
    /\ pc \in {"add_again", "remove_again"}
    /\ Answer(text) \notin {Yes, No}
    /\ pc' = pc
    /\ msg' = "Please respond with 'yes' or 'no'"
    /\ UNCHANGED <<file, expenses, desc, category, summary>>

\* add_expense: "yes" starts the loop over.
AddAgainYes(text) ==
    /\ pc = "add_again"
    /\ Answer(text) = Yes
    /\ pc' = "add_desc"
    /\ msg' = ""
    /\ UNCHANGED <<file, expenses, desc, category, summary>>

\* add_expense: "no" lists the ledger inside the try and returns to the menu.
AddAgainNo(text) ==
    /\ pc = "add_again"
    /\ Answer(text) = No
    /\ CASE view_expenses(expenses) = "ok" ->
              /\ pc' = "menu"
              /\ msg' = "Thank you for adding your expense."
              /\ UNCHANGED <<desc, category, summary>>
         [] view_expenses(expenses) = "ValueError" ->
              /\ pc' = "add_desc"
              /\ msg' = "Please enter a valid input"
              /\ UNCHANGED <<desc, category, summary>>
         [] OTHER -> Crash
    /\ UNCHANGED <<file, expenses>>

\* `remove < 0 or remove > len(expenses)`: position 0 let through.
OutOfRangeZeroAllowed(remove, e) == remove < 0 \/ (PyLen(e).ok /\ remove > PyLen(e).n)

\* remove_expense: `remove <= 0 or remove > len(expenses)`
OutOfRange(remove, e) == remove <= 0 \/ (PyLen(e).ok /\ remove > PyLen(e).n)

\* remove_expense: int(...) raises ValueError.
RemoveNotInt(text) ==
    /\ pc = "remove"
    /\ ~ParseInt(text).ok
    /\ pc' = RemoveLoopTop(expenses, "Please enter a valid input").pc
    /\ msg' = RemoveLoopTop(expenses, "Please enter a valid input").msg
    /\ UNCHANGED <<file, expenses, desc, category, summary>>

\* remove_expense: the number is rejected.
RemoveOutOfRange(text) ==
    /\ pc = "remove"
    /\ ParseInt(text).ok
    /\ OutOfRange(ParseInt(text).v, expenses)
    /\ pc' = RemoveLoopTop(expenses, "Enter a valid number").pc
    /\ msg' = RemoveLoopTop(expenses, "Enter a valid number").msg
    /\ UNCHANGED <<file, expenses, desc, category, summary>>

\* The number is accepted and popped, and save_expenses() is not called.
RemovePopUnsaved(text) ==
    /\ pc = "remove"
    /\ ParseInt(text).ok
    /\ ~OutOfRange(ParseInt(text).v, expenses)
    /\ IF /\ PyLen(expenses).ok
          /\ expenses.t = "list"
          /\ PopInRange(expenses.items, ParseInt(text).v - 1)
       THEN /\ expenses' = JList(Pop(expenses.items, ParseInt(text).v - 1))
            /\ pc' = "remove_again"
            /\ msg' = "Your expense has been removed."
            /\ UNCHANGED <<file, desc, category, summary>>
       ELSE /\ Crash
            /\ UNCHANGED <<file, expenses>>

\* remove_expense: the number is accepted; pop and save.
RemovePop(text) ==
    /\ pc = "remove"
    /\ ParseInt(text).ok
    /\ ~OutOfRange(ParseInt(text).v, expenses)
    /\ IF /\ PyLen(expenses).ok
          /\ expenses.t = "list"
          /\ PopInRange(expenses.items, ParseInt(text).v - 1)
       THEN /\ expenses' = JList(Pop(expenses.items, ParseInt(text).v - 1))
            /\ file' = save_expenses(file, expenses')
            /\ pc' = "remove_again"
            /\ msg' = "Your expense has been removed."
            /\ UNCHANGED <<desc, category, summary>>
       ELSE /\ Crash
            /\ UNCHANGED <<file, expenses>>

\* remove_expense: "yes" starts the loop over.
RemoveAgainYes(text) ==
    /\ pc = "remove_again"
    /\ Answer(text) = Yes
    /\ pc' = RemoveLoopTop(expenses, "").pc
    /\ msg' = RemoveLoopTop(expenses, "").msg
    /\ UNCHANGED <<file, expenses, desc, category, summary>>

\* remove_expense: "no" lists the ledger inside the try and returns to the
\* menu; a ValueError there is caught, the loop starts over, and the listing
\* at its top raises it again, to main.
RemoveAgainNo(text) ==
    /\ pc = "remove_again"
    /\ Answer(text) = No
    /\ CASE view_expenses(expenses) = "ok" ->
              /\ pc' = "menu"
              /\ msg' = "Thank you for removing your expense."
         [] view_expenses(expenses) = "ValueError" ->
              /\ pc' = "menu"
              /\ msg' = "Please enter a valid integer"
         [] OTHER ->
              /\ pc' = "crashed"
              /\ msg' = "Traceback"
    /\ UNCHANGED <<file, expenses, desc, category, summary>>

Next ==
    \/ Start
    \/ \E text \in MenuInputs : MenuNotInt(text)
    \/ \E text \in MenuInputs : MenuOutOfRange(text)
    \/ \E text \in MenuInputs : MenuAdd(text)
    \/ \E text \in MenuInputs : MenuRemove(text)
    \/ \E text \in MenuInputs : MenuView(text)
    \/ \E text \in MenuInputs : MenuSummary(text)
    \/ \E text \in MenuInputs : MenuExit(text)
    \/ \E text \in TextInputs : AddDescription(text)
    \/ \E text \in TextInputs : AddDescriptionAgain(text)
    \/ \E text \in TextInputs : AddCategory(text)
    \/ \E text \in TextInputs : AddCategoryAgain(text)
    \/ \E text \in AmountInputs : AddAmountNotFloat(text)
    \/ \E text \in AmountInputs : AddAmountNegative(text)
    \/ \E text \in AmountInputs : AddAmountAccept(text)
    \/ \E text \in AnswerInputs : AskAgainInvalid(text)
    \/ \E text \in AnswerInputs : AddAgainYes(text)
    \/ \E text \in AnswerInputs : AddAgainNo(text)
    \/ \E text \in PositionInputs : RemoveNotInt(text)
    \/ \E text \in PositionInputs : RemoveOutOfRange(text)
    \/ \E text \in PositionInputs : RemovePop(text)
    \/ \E text \in AnswerInputs : RemoveAgainYes(text)
    \/ \E text \in AnswerInputs : RemoveAgainNo(text)

Spec == Init /\ [][Next]_vars

(***************************************************************************)
(* monthly_summary applied to bounded ledgers of well-formed records       *)
(***************************************************************************)
Date20231201 == <<"0", "1", "-", "1", "2", "-", "2", "0", "2", "3">>

SummaryRecords ==
    { Expense(Date20240101, TextTv, TextFun, Num(10)),
      Expense(Date20240115, TextTv, TextFun, Num(5)),
      Expense(Date20240202, TextTv, TextFun, Num(7)),
      Expense(Date20231201, TextTv, TextFun, Num(7)) }

SummaryLedgers ==
    UNION { [1..n -> SummaryRecords] : n \in 0..MaxSummaryLen }

InitSummary ==
    /\ expenses \in { JList(items) : items \in SummaryLedgers }
    /\ file = Saved(expenses)
    /\ pc = "menu"
    /\ desc = <<>>
    /\ category = <<>>
    /\ msg = "Welcome to Expense Tracker!"
    /\ summary = NoSummary

NextSummary == \E text \in MenuInputs : MenuSummary(text)

SpecSummary == InitSummary /\ [][NextSummary]_vars

(***************************************************************************)
(* Properties                                                              *)
(***************************************************************************)
Running == pc \notin {"init", "off", "crashed"}

Items == expenses.items

\* The whole of remove_expense's handling of one line typed at its prompt.
RemoveStep(text) == RemoveNotInt(text) \/ RemoveOutOfRange(text) \/ RemovePop(text)

\* C1: whenever the program waits at the yes/no prompt that follows a
\* completed append or removal, expenses.txt exists and decodes to exactly
\* the in-memory ledger; and at every prompt of a running program a load of
\* the file would give the ledger held in memory, so no change is unflushed.
C1_FlushedAfterMutation ==
    /\ pc \in {"add_again", "remove_again"} =>
           /\ file.exists
           /\ Decode(file.toks).ok
           /\ Decode(file.toks).val = expenses
    /\ Running => load_expenses(file) = expenses

\* C1 witness: a removal has completed and left a record that add_expense
\* appended earlier in the run.
C1_Witness ==
    /\ pc = "remove_again"
    /\ msg = "Your expense has been removed."
    /\ Len(Items) = 1
    /\ Get(Items[1], KeyDate).s \in NowDates

\* C2: save_expenses followed by load_expenses gives back the ledger held in
\* memory, in every reachable state; and a process started after an exit or
\* a crash loads exactly the ledger the previous process ended with.
C2_RoundTrip ==
    /\ [](load_expenses(save_expenses(file, expenses)) = expenses)
    /\ [][(pc \in {"off", "crashed"} /\ pc' = "menu") => expenses' = expenses]_vars

\* C2 witness: a new process has loaded the one-record ledger [R], R being
\* a record that only add_expense builds.
C2_Witness ==
    /\ pc = "menu"
    /\ msg = "Welcome to Expense Tracker!"
    /\ \E d \in NowDates :
          expenses = JList(<<Expense(d, <<"T", "v">>, <<" ", "t", "v">>, NaN)>>)

\* An expense record as the data model describes it.
WellFormedRecord(x) ==
    /\ x.t = "obj"
    /\ HasKey(x, KeyDate) /\ HasKey(x, KeyDescription)
    /\ HasKey(x, KeyCategory) /\ HasKey(x, KeyAmount)
    /\ Get(x, KeyAmount).t = "num" /\ Get(x, KeyAmount).v >= 0
    /\ Get(x, KeyDescription).t = "str" /\ Get(x, KeyDescription).s # <<>>
    /\ Get(x, KeyCategory).t = "str" /\ Get(x, KeyCategory).s # <<>>
    /\ Get(x, KeyDate).t = "str" /\ StrpTime(Get(x, KeyDate).s).ok

\* C3: in every state of a running program, every record of the ledger has
\* Amount >= 0, a non-empty Description, a non-empty Category and a Date
\* that parses as dd-mm-yyyy.
C3_EveryRecordWellFormed ==
    (Running /\ expenses.t = "list") =>
        \A i \in 1..Len(Items) : WellFormedRecord(Items[i])

\* C4: at the removal prompt with a ledger of n >= 1 records, position 1 and
\* position n are accepted and leave n-1 records; position 0, position n+1
\* and negative positions are reported invalid, and leave ledger and file as
\* they were, the program back at the prompt.
C4_RemoveBoundary ==
    [][\A text \in PositionInputs :
          (/\ pc = "remove"
           /\ expenses.t = "list"
           /\ Len(Items) >= 1
           /\ ParseInt(text).ok
           /\ RemoveStep(text))
          => LET p == ParseInt(text).v
                 n == Len(Items)
             IN  /\ p \in {1, n} =>
                       /\ expenses'.t = "list"
                       /\ Len(expenses'.items) = n - 1
                       /\ pc' = "remove_again"
                 /\ (p = 0 \/ p = n + 1 \/ p < 0) =>
                       /\ expenses' = expenses
                       /\ file' = file
                       /\ msg' = "Enter a valid number"
                       /\ pc' = "remove"]_vars

\* C4 witness: a position was rejected at the prompt of a non-empty ledger.
C4_Witness ==
    /\ pc = "remove"
    /\ msg = "Enter a valid number"
    /\ expenses.t = "list"
    /\ Len(Items) = MaxLedger

\* The month key of a record whose Date is written dd-mm-yyyy.
MonthOf(x) == SubSeq(Get(x, KeyDate).s, 4, 10)

\* The sum of the Amounts of the first n records whose month key is `key`.
RECURSIVE SumFor(_, _, _)
SumFor(items, key, n) ==
    IF n = 0 THEN 0
    ELSE SumFor(items, key, n - 1)
         + (IF MonthOf(items[n]) = key THEN Get(items[n], KeyAmount).v ELSE 0)

\* The position of the first record whose month key is `key`.
FirstAt(items, key) ==
    CHOOSE i \in 1..Len(items) :
        /\ MonthOf(items[i]) = key
        /\ \A j \in 1..(i - 1) : MonthOf(items[j]) # key

\* C5: what monthly_summary shows for an empty ledger is the "no data"
\* outcome; for a non-empty ledger it is one entry per distinct mm-yyyy key
\* of the records' Dates, each with the sum of the Amounts of the records of
\* that month, the keys in the order of their first occurrence in the ledger.
C5_MonthlyTotals ==
    summary.out # "unset" =>
        IF Items = <<>>
        THEN summary = [out |-> "nodata", totals |-> <<>>]
        ELSE LET tt == summary.totals
             IN  /\ summary.out = "totals"
                 /\ { tt[i].k : i \in 1..Len(tt) }
                        = { MonthOf(Items[j]) : j \in 1..Len(Items) }
                 /\ \A i, j \in 1..Len(tt) : i # j => tt[i].k # tt[j].k
                 /\ \A i \in 1..Len(tt) :
                        tt[i].val = Num(SumFor(Items, tt[i].k, Len(Items)))
                 /\ \A i, j \in 1..Len(tt) :
                        i < j => FirstAt(Items, tt[i].k) < FirstAt(Items, tt[j].k)

\* C5 witness: 01-01-2024 (10), 15-01-2024 (5), 02-02-2024 (7) summarised as
\* 01-2024 => 15 followed by 02-2024 => 7.
C5_Witness ==
    /\ Items = << Expense(Date20240101, TextTv, TextFun, Num(10)),
                  Expense(Date20240115, TextTv, TextFun, Num(5)),
                  Expense(Date20240202, TextTv, TextFun, Num(7)) >>
    /\ summary = [out |-> "totals",
                  totals |-> << [k |-> <<"0", "1", "-", "2", "0", "2", "4">>, val |-> Num(15)],
                                [k |-> <<"0", "2", "-", "2", "0", "2", "4">>, val |-> Num(7)] >>]

\* A value that is an expense record: a dict with the four fields, three
\* strings and a number.
IsExpenseRecord(x) ==
    /\ x.t = "obj"
    /\ HasKey(x, KeyDate) /\ Get(x, KeyDate).t = "str"
    /\ HasKey(x, KeyDescription) /\ Get(x, KeyDescription).t = "str"
    /\ HasKey(x, KeyCategory) /\ Get(x, KeyCategory).t = "str"
    /\ HasKey(x, KeyAmount) /\ IsNumber(Get(x, KeyAmount))

\* C6: right after load_expenses the ledger is the decoded file when the file
\* decodes, the empty list when it is absent or does not decode, and in
\* every case a list of expense records.
C6_LoadYieldsLedger ==
    (pc = "menu" /\ msg = "Welcome to Expense Tracker!") =>
        /\ (file.exists /\ Decode(file.toks).ok) => expenses = Decode(file.toks).val
        /\ ~(file.exists /\ Decode(file.toks).ok) => expenses = JList(<<>>)
        /\ expenses.t = "list"
        /\ \A i \in 1..Len(Items) : IsExpenseRecord(Items[i])

\* Text as add_expense's first prompt leaves it: stripped, capitalized.
Normalized(s) == s # <<>> /\ s = Capitalize(Strip(s))

\* C7: the record a step of add_expense appends has a normalized Description
\* and a normalized Category.
C7_AppendedRecordNormalized ==
    [][\A text \in AmountInputs :
          (AddAmountAccept(text) /\ pc' = "add_again")
          => LET r == expenses'.items[Len(expenses'.items)]
             IN  /\ Normalized(Get(r, KeyDescription).s)
                 /\ Normalized(Get(r, KeyCategory).s)]_vars

\* The positions remove_at accepts: 1 <= position <= len(ledger).
ValidPosition(text, e) ==
    /\ ParseInt(text).ok
    /\ e.t = "list"
    /\ ParseInt(text).v \in 1..Len(e.items)

\* A step that handles an input failing validation: a menu choice that is no
\* integer of 1..5, an empty description or category, an amount that is no
\* number or is negative, a removal position that is no integer of 1..len.
RejectedInput ==
    \/ \E text \in MenuInputs : MenuNotInt(text) \/ MenuOutOfRange(text)
    \/ \E text \in TextInputs :
          \/ (AddDescription(text) \/ AddDescriptionAgain(text)) /\ desc' = <<>>
          \/ (AddCategory(text) \/ AddCategoryAgain(text)) /\ category' = <<>>
    \/ \E text \in AmountInputs : AddAmountNotFloat(text) \/ AddAmountNegative(text)
    \/ \E text \in PositionInputs : RemoveStep(text) /\ ~ValidPosition(text, expenses)

\* C8: a step that handles an input failing validation leaves the ledger and
\* the file as they were and the program running.
C8_InvalidInputHarmless ==
    [][RejectedInput =>
          /\ expenses' = expenses
          /\ file' = file
          /\ pc' \notin {"off", "crashed"}]_vars

C10_RemoveCanReturn ==
    (pc = "remove" /\ expenses.t = "list") =>
        ENABLED (\E text \in PositionInputs : RemovePop(text) /\ pc' = "remove_again")

====
